---- MODULE Spec2Model ----
(***************************************************************************)
(* State-machine model of the customized calibre sources:                  *)
(*   gui2/ui.py            Main: plugin registration, initialize,          *)
(*                         library_moved, quit/shutdown                    *)
(*   gui2/actions/__init__.py  InterfaceAction hooks, library drops        *)
(*   web/feeds/recipes/collection.py  SchedulerConfig                      *)
(*   customize/zipplugin.py  get_resources, get_icons                      *)
(* Each subsystem has its own specification over the shared variables; the *)
(* variables of the other subsystems stay at their idle values.            *)
(***************************************************************************)
EXTENDS Integers, Sequences, FiniteSets, TLC

VARIABLES
    \* ---- Main.__init__ / Main.initialize (gui2/ui.py)
    ignore_plugins,   \* opts.ignore_plugins
    iactions,         \* self.iactions: name -> action object (or NoAction)
    order,            \* insertion order of the keys of the OrderedDict
    registered,       \* history: every action handed to add_iaction, in order
    loaded,           \* number of plugins the __init__ loop has visited
    mainPc,           \* position of the startup code
    initIdx,          \* index into order of the running initialize loop
    hooklog,          \* history: the hooks called so far, in call order
    \* ---- Main while running: library_moved, quit, run_wizard, closeEvent
    current_db,       \* self.library_view.model().db
    moves,            \* number of LibraryDatabase objects made so far
    lmPc,             \* position inside library_moved ("idle" outside it)
    lmIdx,            \* index into order of the running hook loop
    lmOld,            \* local olddb of library_moved
    lmNew,            \* local db of library_moved
    lmLog,            \* history: hooks and set_database of the last library_moved
    lmRaised,         \* history: some hook of the last library_moved raised
    shutting_down,    \* Main.shutting_down
    restart_after_quit,
    shutdown_calls,   \* history: number of calls of Main.shutdown
    shutCalls,        \* history: name -> number of calls of its shutting_down()
    exit_calls,       \* history: number of calls of QApplication exit()/quit()
    \* ---- InterfaceActionWithLibraryDrop (gui2/actions/__init__.py)
    dropped_ids,      \* self.dropped_ids
    timers,           \* pending QTimer.singleShot(1, self.do_drop), oldest first;
                      \* each carries (history) the ids of the drop that set it
    observed,         \* history: what the last do_drop saw, and what was dropped
    \* ---- get_resources (customize/zipplugin.py)
    zip,              \* the plugin zip file: name -> contents (or Missing)
    res_args,         \* name_or_list_of_names of the last call
    res_result,       \* what the last call returned
    \* ---- get_icons (customize/zipplugin.py)
    theme,            \* the names n for which QIcon.ic(plugin_name/n).is_ok()
    icon_args,        \* name_or_list_of_names and plugin_name of the last call
    icon_result,      \* what the last get_icons returned
    \* ---- SchedulerConfig (web/feeds/recipes/collection.py)
    root,             \* self.root: the elements of the tree, in order
    file,             \* the content of scheduler.xml
    lockOwner,        \* the thread holding self.lock
    tpc,              \* thread -> its position inside a call
    top,              \* thread -> the call it is making
    tld,              \* thread -> local last_downloaded of schedule_recipe
    seqRoot,          \* history: the tree if each call had run alone, in lock order
    written,          \* history: a write_scheduler_file has completed
    stale,            \* history: a call changed the tree, raised and never wrote
    clock,            \* utcnow()
    tz,               \* utcoffset of local_tz
    ticks,            \* number of clock steps taken
    ans,              \* what get_to_be_downloaded_recipes returned just now
    info,             \* what get_schedule_info returned just now
    given,            \* history: id -> the schedule last passed to schedule_recipe
    last_update,      \* history: id -> the last update_last_downloaded
    \* ---- InterfaceAction.create_action (gui2/actions/__init__.py)
    keyboard,         \* self.gui.keyboard: unique name -> registered shortcut
    created,          \* history: the last create_action call and what it did
    \* ---- CalibrePluginFinder (customize/zipplugin.py)
    loaded_plugins,   \* self.loaded_plugins: plugin name -> (zip path, names)
    asked,            \* the last find_spec call: its name, the spec, the source
    \* ---- UDisks.mount (devices/udisks.py)
    mounted,          \* the kernel's mounts: device node -> mount point
    mount_result,     \* the last UDisks.mount call and what it returned
    \* ---- Main: store plugins and the exceptions of startup (gui2/ui.py)
    istores,          \* self.istores: name -> store plugin
    stores_seen,      \* number of plugins load_store_plugins has visited
    genesis_done,     \* the stores whose do_genesis initialize has called
    last_raise,       \* history: the last exception a plugin raised in startup
    \* ---- Main.quit (gui2/ui.py)
    last_quit         \* history: the last quit(): whether the user declined,
                      \* and past the early returns restart and the outcome

startupVars == <<ignore_plugins, iactions, order, registered, loaded, mainPc,
                 initIdx, hooklog>>
runVars == <<current_db, moves, lmPc, lmIdx, lmOld, lmNew, lmLog, lmRaised,
             shutting_down, restart_after_quit, shutdown_calls, shutCalls,
             exit_calls>>

dropVars == <<dropped_ids, timers, observed>>
resVars == <<zip, res_args, res_result, theme, icon_args, icon_result>>

schedVars == <<root, file, lockOwner, tpc, top, tld, seqRoot, written, stale,
               clock, tz, ticks, ans, info, given, last_update>>

actionVars == <<keyboard, created>>
finderVars == <<loaded_plugins, asked>>
udisksVars == <<mounted, mount_result>>
storeVars == <<istores, stores_seen, genesis_done, last_raise>>
quitVars == <<last_quit>>
auxVars == <<actionVars, finderVars, udisksVars, storeVars, quitVars>>
\* what Main.__init__ and Main.initialize leave alone
restVars == <<runVars, dropVars, resVars, schedVars, actionVars, finderVars,
              udisksVars, quitVars>>

vars == <<startupVars, runVars, dropVars, resVars, schedVars, auxVars>>

-----------------------------------------------------------------------------
(* Bounds of the model *)

\* plugins yielded by interface_actions()
MaxPlugins == 3
\* priorities range over 1..MaxPriority
MaxPriority == 2
\* store plugins visited by load_store_plugins
MaxStores == 2

Names == {"Restart", "Choose Library"}
Priorities == 1..MaxPriority
NoAction == [name |-> "", priority |-> 0, builtin |-> FALSE, uid |-> 0]

\* an InterfaceAction object: class attributes name and priority, the
\* installation type copied by init_iaction, and its identity
Action(n, p, b, u) == [name |-> n, priority |-> p, builtin |-> b, uid |-> u]

-----------------------------------------------------------------------------
(* Text: the characters of a str or bytes value, as a sequence *)

Digits == <<"0", "1", "2", "3", "4", "5", "6", "7", "8", "9">>
IsDigit(c) == \E d \in 1..10 : Digits[d] = c
DigitVal(c) == (CHOOSE d \in 1..10 : Digits[d] = c) - 1

\* str.split(sep): the parts between the separators, empty parts included
Split(s, sep) ==
    LET cuts == <<0>> \o SelectSeq([i \in 1..Len(s) |-> i], LAMBDA i : s[i] = sep)
                     \o <<Len(s) + 1>>
    IN [k \in 1..(Len(cuts) - 1) |-> SubSeq(s, cuts[k] + 1, cuts[k + 1] - 1)]

\* str.split(): the runs of non-blank characters
SplitBlank(s) == SelectSeq(Split(s, " "), LAMBDA part : part # <<>>)

RECURSIVE DigitsVal(_)
DigitsVal(s) ==
    IF s = <<>> THEN 0
    ELSE 10 * DigitsVal(SubSeq(s, 1, Len(s) - 1)) + DigitVal(s[Len(s)])

\* x.strip() for blanks
RECURSIVE Strip(_)
Strip(s) ==
    IF s # <<>> /\ s[1] = " " THEN Strip(Tail(s))
    ELSE IF s # <<>> /\ s[Len(s)] = " " THEN Strip(SubSeq(s, 1, Len(s) - 1))
    ELSE s

\* int(s): blanks around, an optional sign, at least one digit; otherwise
\* ValueError
IsInt(s) ==
    LET t == Strip(s)
        d == IF t # <<>> /\ t[1] \in {"-", "+"} THEN Tail(t) ELSE t
    IN d # <<>> /\ \A i \in 1..Len(d) : IsDigit(d[i])

StrToInt(s) ==
    LET t == Strip(s) IN
    IF t[1] = "-" THEN 0 - DigitsVal(Tail(t))
    ELSE IF t[1] = "+" THEN DigitsVal(Tail(t))
    ELSE DigitsVal(t)

RECURSIVE NatToStr(_)
NatToStr(n) ==
    IF n < 10 THEN <<Digits[n + 1]>>
    ELSE NatToStr(n \div 10) \o <<Digits[(n % 10) + 1]>>

\* str(n) of an int
IntToStr(n) == IF n < 0 THEN <<"-">> \o NatToStr(0 - n) ELSE NatToStr(n)

\* sep.join(parts)
RECURSIVE Join(_, _)
Join(parts, sep) ==
    IF parts = <<>> THEN <<>>
    ELSE IF Len(parts) = 1 THEN parts[1]
    ELSE parts[1] \o <<sep>> \o Join(Tail(parts), sep)

\* the sequences over S of length at most n
SeqsUpTo(S, n) == UNION {[1..k -> S] : k \in 0..n}

-----------------------------------------------------------------------------
(* The values of a subsystem that has not run *)

\* no drop has happened
NoDrop == [seen |-> <<>>, dropped |-> <<>>, ran |-> FALSE]

DropIdle ==
    /\ dropped_ids = <<>>
    /\ timers = <<>>
    /\ observed = NoDrop

\* names a plugin zip file can hold, and file contents
ResourceNames == {"a.png", "b.png", "c.png"}
Contents == {"x", "y"}
Missing == "missing"

\* no zip file opened, no call made
NoResult == [kind |-> "no call"]

ResIdle ==
    /\ zip = [n \in ResourceNames |-> Missing]
    /\ res_args = [single |-> FALSE, names |-> <<>>]
    /\ res_result = NoResult
    /\ theme = {}
    /\ icon_args = [single |-> FALSE, names |-> <<>>, plugin_name |-> ""]
    /\ icon_result = NoResult

\* the threads that use one SchedulerConfig
Threads == {"t1", "t2"}
RecipeIds == {"r1"}
None == "None"
\* no scheduler.xml on disk
Absent == [exists |-> FALSE]
\* the last_downloaded argument of schedule_recipe: None, or a time
NoTime == [given |-> FALSE]
Time(t) == [given |-> TRUE, at |-> t]
NoCall == [name |-> "", id |-> "", typ |-> "", schedule |-> 0,
           last_downloaded |-> NoTime, val |-> ""]
NoAnswer == [called |-> FALSE, ids |-> <<>>]
NoInfo == [called |-> FALSE]
NoGiven == [typ |-> "", schedule |-> 0]
NoUpdate == [valid |-> FALSE, at |-> 0, typ |-> ""]

\* no SchedulerConfig has been made
SchedIdle ==
    /\ root = <<>>
    /\ file = Absent
    /\ lockOwner = None
    /\ tpc = [t \in Threads |-> "idle"]
    /\ top = [t \in Threads |-> NoCall]
    /\ tld = [t \in Threads |-> 0]
    /\ seqRoot = <<>>
    /\ written = FALSE
    /\ stale = FALSE
    /\ clock = 0
    /\ tz = 0
    /\ ticks = 0
    /\ ans = NoAnswer
    /\ info = NoInfo
    /\ given = [r \in RecipeIds |-> NoGiven]
    /\ last_update = [r \in RecipeIds |-> NoUpdate]

\* the unique names create_action registers shortcuts under
Attrs == {"qaction", "extra_action"}
ShortcutIds == {<<"Plugin", a>> : a \in Attrs}
NoShortcut == [registered |-> FALSE]
NotCreated == [called |-> FALSE]

\* no action has been created
ActionIdle ==
    /\ keyboard = [k \in ShortcutIds |-> NoShortcut]
    /\ created = NotCreated

\* the import names of plugins
PluginKeys == {"foo", "bar"}
NotLoaded == [loaded |-> FALSE]
NotAsked == [called |-> FALSE]

\* no plugin has been loaded
FinderIdle ==
    /\ loaded_plugins = [k \in PluginKeys |-> NotLoaded]
    /\ asked = NotAsked

\* block device nodes
Devices == {"/dev/sdb1", "/dev/sdc1"}
NotMounted == [mounted |-> FALSE]
NoMount == [called |-> FALSE]

\* nothing is mounted, mount has not been called
UDisksIdle ==
    /\ mounted = [d \in Devices |-> NotMounted]
    /\ mount_result = NoMount

StoreNames == {"Store A", "Store B"}
NoRaise == [raised |-> FALSE]

\* no store plugin is loaded, no plugin has raised
StoresIdle ==
    /\ istores = [n \in StoreNames |-> NoAction]
    /\ stores_seen = 0
    /\ genesis_done = {}
    /\ last_raise = NoRaise

NoQuit == [called |-> FALSE]

\* quit has not been called
QuitIdle == last_quit = NoQuit

OtherIdle == ActionIdle /\ FinderIdle /\ UDisksIdle /\ QuitIdle
AuxIdle == OtherIdle /\ StoresIdle

-----------------------------------------------------------------------------
(* Main.add_iaction *)

\* the stored action is replaced only by one of strictly higher priority
AddIactionStrict(acmap, ac) ==
    IF acmap[ac.name] # NoAction
    THEN IF ac.priority > acmap[ac.name].priority
         THEN [acmap EXCEPT ![ac.name] = ac]
         ELSE acmap
    ELSE [acmap EXCEPT ![ac.name] = ac]

add_iaction(acmap, ac) ==
    IF acmap[ac.name] # NoAction
    THEN IF ac.priority >= acmap[ac.name].priority
         THEN [acmap EXCEPT ![ac.name] = ac]
         ELSE acmap
    ELSE [acmap EXCEPT ![ac.name] = ac]

\* an OrderedDict keeps a key at the place of its first insertion
KeyOrder(ord, acmap, ac) ==
    IF acmap[ac.name] # NoAction THEN ord ELSE Append(ord, ac.name)

NoDb == [path |-> "", id |-> 0]
Db(path, id) == [path |-> path, id |-> id]

\* the running window before initialize has opened a library
RunIdle ==
    /\ current_db = NoDb
    /\ moves = 0
    /\ lmPc = "idle"
    /\ lmIdx = 0
    /\ lmOld = NoDb
    /\ lmNew = NoDb
    /\ lmLog = <<>>
    /\ lmRaised = FALSE
    /\ shutting_down = FALSE
    /\ restart_after_quit = FALSE
    /\ shutdown_calls = 0
    /\ shutCalls = [n \in Names |-> 0]
    /\ exit_calls = 0

StartupInit ==
    /\ RunIdle /\ DropIdle /\ ResIdle /\ SchedIdle /\ AuxIdle
    /\ ignore_plugins \in BOOLEAN
    /\ iactions = [n \in Names |-> NoAction]
    /\ order = <<>>
    /\ registered = <<>>
    /\ loaded = 0
    /\ mainPc = "loading"
    /\ initIdx = 0
    /\ hooklog = <<>>

\* the exception a plugin raised
Raise(kind, builtin, during) ==
    [raised |-> TRUE, kind |-> kind, builtin |-> builtin, during |-> during]

\* one iteration of the loop over interface_actions() in Main.__init__
LoadAction ==
    /\ mainPc = "loading"
    /\ loaded < MaxPlugins
    /\ \E n \in Names, p \in Priorities, b \in BOOLEAN, raises \in BOOLEAN :
         LET ac == Action(n, p, b, loaded + 1) IN
         /\ loaded' = loaded + 1
         /\ IF ignore_plugins /\ ~b
            THEN UNCHANGED <<iactions, order, registered, mainPc, last_raise>>
            ELSE IF raises
            THEN /\ mainPc' = IF b THEN "failed" ELSE mainPc
                 /\ last_raise' = Raise("iaction", b, "loading")
                 /\ UNCHANGED <<iactions, order, registered>>
            ELSE /\ iactions' = add_iaction(iactions, ac)
                 /\ order' = KeyOrder(order, iactions, ac)
                 /\ registered' = Append(registered, ac)
                 /\ UNCHANGED <<mainPc, last_raise>>
    /\ UNCHANGED <<ignore_plugins, initIdx, hooklog>>
    /\ UNCHANGED <<istores, stores_seen, genesis_done>>
    /\ UNCHANGED restVars

\* the loop ends and load_store_plugins is entered: self.istores = Stores()
LoadStorePlugins ==
    /\ mainPc = "loading"
    /\ mainPc' = "loading_stores"
    /\ istores' = [n \in StoreNames |-> NoAction]
    /\ UNCHANGED <<ignore_plugins, iactions, order, registered, loaded,
                   initIdx, hooklog>>
    /\ UNCHANGED <<stores_seen, genesis_done, last_raise>>
    /\ UNCHANGED restVars

add_istore(stmap, st) ==
    IF stmap[st.name] # NoAction
    THEN IF st.priority >= stmap[st.name].priority
         THEN [stmap EXCEPT ![st.name] = st]
         ELSE stmap
    ELSE [stmap EXCEPT ![st.name] = st]

\* one iteration of the loop over available_store_plugins()
LoadStore ==
    /\ mainPc = "loading_stores"
    /\ stores_seen < MaxStores
    /\ \E n \in StoreNames, p \in Priorities, b \in BOOLEAN, raises \in BOOLEAN :
         LET st == Action(n, p, b, 1) IN
         /\ stores_seen' = stores_seen + 1
         /\ IF ignore_plugins /\ ~b
            THEN UNCHANGED <<istores, mainPc, last_raise>>
            ELSE IF raises
            THEN /\ mainPc' = IF b THEN "failed" ELSE mainPc
                 /\ last_raise' = Raise("store", b, "loading_stores")
                 /\ UNCHANGED istores
            ELSE /\ istores' = add_istore(istores, st)
                 /\ UNCHANGED <<mainPc, last_raise>>
    /\ UNCHANGED <<ignore_plugins, iactions, order, registered, loaded,
                   initIdx, hooklog, genesis_done>>
    /\ UNCHANGED restVars

\* the loop over the store plugins ends and load_store_plugins returns
FinishLoading ==
    /\ mainPc = "loading_stores"
    /\ mainPc' = "constructed"
    /\ UNCHANGED <<ignore_plugins, iactions, order, registered, loaded,
                   initIdx, hooklog>>
    /\ UNCHANGED storeVars
    /\ UNCHANGED restVars

\* Main.__init__ up to the call of load_store_plugins
StartupNext == LoadAction \/ LoadStorePlugins

SpecStartup == StartupInit /\ [][StartupNext]_vars

-----------------------------------------------------------------------------
(* Main.load_store_plugins *)

\* the state the loop over interface_actions() leaves: any map add_iaction
\* can have built, the last exception (if any) that of a third-party action
StoresInit ==
    /\ RunIdle /\ DropIdle /\ ResIdle /\ SchedIdle /\ OtherIdle
    /\ ignore_plugins \in BOOLEAN
    /\ iactions \in [Names -> {Action(n, p, b, 1) : n \in Names, p \in Priorities,
                                                   b \in BOOLEAN} \cup {NoAction}]
    /\ \A n \in Names : iactions[n] # NoAction => iactions[n].name = n
    /\ ignore_plugins => \A n \in Names : iactions[n] # NoAction => iactions[n].builtin
    /\ order \in {q \in SeqsUpTo(Names, Cardinality(Names)) :
                     /\ \A n \in Names : (iactions[n] # NoAction)
                                             <=> (\E i \in 1..Len(q) : q[i] = n)
                     /\ \A i, j \in 1..Len(q) : i # j => q[i] # q[j]}
    /\ registered = <<>>
    /\ loaded = 0
    /\ mainPc = "loading_stores"
    /\ initIdx = 0
    /\ hooklog = <<>>
    /\ istores = [n \in StoreNames |-> NoAction]
    /\ stores_seen = 0
    /\ genesis_done = {}
    /\ last_raise \in {NoRaise} \cup
                      (IF ignore_plugins THEN {}
                       ELSE {Raise("iaction", FALSE, "loading")})

StoresNext == LoadStore \/ FinishLoading

SpecStores == StoresInit /\ [][StoresNext]_vars

-----------------------------------------------------------------------------
(* Main.initialize: the three loops over self.iactions.values() *)

Actions == {Action(n, p, b, 1) : n \in Names, p \in Priorities, b \in BOOLEAN}

\* the orders in which the keys of acmap can have been inserted
KeyOrders(acmap) ==
    LET present == {n \in Names : acmap[n] # NoAction} IN
    {s \in UNION {[1..k -> present] : k \in 0..Cardinality(Names)} :
        /\ Len(s) = Cardinality(present)
        /\ \A i, j \in 1..Len(s) : i # j => s[i] # s[j]}

\* where a call of do_genesis can raise
GenesisOutcomes == {"ok", "create_action", "genesis", "location_selected"}

Event(h, n) == <<h, n>>

\* a do_genesis that calls location_selected before genesis
DoGenesisCallsSwapped(n, outcome) ==
    <<Event("do_genesis", n)>> \o
    (IF outcome = "create_action" THEN <<>>
     ELSE <<Event("location_selected", n)>> \o
          (IF outcome = "location_selected" THEN <<>>
           ELSE <<Event("genesis", n)>>))

\* InterfaceAction.do_genesis: create_action, genesis, location_selected,
\* up to the call that raises
DoGenesisCalls(n, outcome) ==
    <<Event("do_genesis", n)>> \o
    (IF outcome = "create_action" THEN <<>>
     ELSE <<Event("genesis", n)>> \o
          (IF outcome = "genesis" THEN <<>>
           ELSE <<Event("location_selected", n)>>))

Stores == {Action(n, 1, b, 1) : n \in StoreNames, b \in BOOLEAN}

\* the state Main.__init__ leaves: any maps add_iaction and add_istore can
\* have built
InitializeInit ==
    /\ RunIdle /\ DropIdle /\ ResIdle /\ SchedIdle /\ OtherIdle
    /\ ignore_plugins \in BOOLEAN
    /\ istores \in [StoreNames -> Stores \cup {NoAction}]
    /\ \A n \in StoreNames : istores[n] # NoAction => istores[n].name = n
    /\ ignore_plugins => \A n \in StoreNames : istores[n] # NoAction => istores[n].builtin
    /\ stores_seen = 0
    /\ genesis_done = {}
    /\ last_raise = NoRaise
    /\ iactions \in [Names -> Actions \cup {NoAction}]
    /\ ignore_plugins => \A n \in Names : iactions[n] # NoAction => iactions[n].builtin
    /\ order \in KeyOrders(iactions)
    /\ registered = <<>>
    /\ loaded = 0
    /\ mainPc = "constructed"
    /\ initIdx = 0
    /\ hooklog = <<>>

\* the position after the loop at index initIdx, or the next phase
Advance(phase, next) ==
    IF initIdx < Len(order)
    THEN /\ mainPc' = phase
         /\ initIdx' = initIdx + 1
    ELSE /\ mainPc' = next
         /\ initIdx' = 1

\* initialize is entered; the first loop starts
StartInitialize ==
    /\ mainPc = "constructed"
    /\ IF order = <<>>
       THEN mainPc' = "store_genesis" /\ initIdx' = 1
       ELSE mainPc' = "do_genesis" /\ initIdx' = 1
    /\ UNCHANGED <<ignore_plugins, iactions, order, registered, loaded, hooklog>>
    /\ UNCHANGED storeVars
    /\ UNCHANGED restVars

\* one iteration of a loop: the hook is called, an exception is ignored
\* unless the action is builtin
CallHook(phase, next, calls, raised) ==
    /\ hooklog' = hooklog \o calls
    /\ IF raised /\ iactions[order[initIdx]].builtin
       THEN mainPc' = "failed" /\ UNCHANGED initIdx
       ELSE Advance(phase, next)
    /\ last_raise' = IF raised
                     THEN Raise("iaction", iactions[order[initIdx]].builtin, phase)
                     ELSE last_raise
    /\ UNCHANGED <<ignore_plugins, iactions, order, registered, loaded>>
    /\ UNCHANGED <<istores, stores_seen, genesis_done>>
    /\ UNCHANGED restVars

DoGenesis ==
    /\ mainPc = "do_genesis"
    /\ \E outcome \in GenesisOutcomes :
          CallHook("do_genesis", "store_genesis",
                   DoGenesisCalls(order[initIdx], outcome), outcome # "ok")

GuiLayoutComplete ==
    /\ mainPc = "gui_layout_complete"
    /\ \E raised \in BOOLEAN :
          CallHook("gui_layout_complete", "initialization_complete",
                   <<Event("gui_layout_complete", order[initIdx])>>, raised)

InitializationComplete ==
    /\ mainPc = "initialization_complete"
    /\ \E raised \in BOOLEAN :
          CallHook("initialization_complete", "initialized",
                   <<Event("initialization_complete", order[initIdx])>>, raised)

\* the loop over self.istores.values(): st.do_genesis() of the next store,
\* or the end of the loop
StoreGenesis ==
    /\ mainPc = "store_genesis"
    /\ LET todo == {n \in StoreNames : istores[n] # NoAction} \ genesis_done IN
       IF todo = {}
       THEN /\ mainPc' = IF order = <<>> THEN "initialized" ELSE "gui_layout_complete"
            /\ UNCHANGED <<genesis_done, last_raise>>
       ELSE \E n \in todo, raised \in BOOLEAN :
               /\ genesis_done' = genesis_done \cup {n}
               /\ IF raised
                  THEN /\ mainPc' = "failed"
                       /\ last_raise' = Raise("store", istores[n].builtin, "store_genesis")
                  ELSE UNCHANGED <<mainPc, last_raise>>
    /\ UNCHANGED <<ignore_plugins, iactions, order, registered, loaded, initIdx,
                   hooklog, istores, stores_seen>>
    /\ UNCHANGED restVars

InitializeNext ==
    \/ StartInitialize \/ DoGenesis \/ StoreGenesis
    \/ GuiLayoutComplete \/ InitializationComplete


SpecInitialize == InitializeInit /\ [][InitializeNext]_vars

-----------------------------------------------------------------------------
(* Main while running: library_moved *)

\* library paths a switch can name
Libraries == {"lib1", "lib2"}
\* LibraryDatabase objects made by library_moved
MaxMoves == 2

\* what opening the new library does in library_moved:
\*   broker     prepare_for_gui_library_change returns a db
\*   opened     LibraryDatabase(newloc) succeeds
\*   error      apsw.Error and not allow_rebuild: the error propagates
\*   declined   apsw.Error, the user declines the repair
\*   unrepaired apsw.Error, repair_library_at fails
\*   repaired   apsw.Error, the repair succeeds and the db is opened
OpenOutcomes == {"broker", "opened", "error", "declined", "unrepaired", "repaired"}

\* the outcomes after which library_moved goes on to switch
Switches(outcome) == outcome \in {"broker", "opened", "repaired"}

\* the initialized window: a library is open, nothing has been requested
RunInit ==
    /\ DropIdle /\ ResIdle /\ SchedIdle /\ AuxIdle
    /\ ignore_plugins \in BOOLEAN
    /\ iactions \in [Names -> Actions \cup {NoAction}]
    /\ ignore_plugins => \A n \in Names : iactions[n] # NoAction => iactions[n].builtin
    /\ order \in KeyOrders(iactions)
    /\ registered = <<>>
    /\ loaded = 0
    /\ mainPc = "initialized"
    /\ initIdx = 1
    /\ hooklog = <<>>
    /\ current_db = Db("lib1", 0)
    /\ moves = 0
    /\ lmPc = "idle"
    /\ lmIdx = 0
    /\ lmOld = NoDb
    /\ lmNew = NoDb
    /\ lmLog = <<>>
    /\ lmRaised = FALSE
    /\ shutting_down = FALSE
    /\ restart_after_quit = FALSE
    /\ shutdown_calls = 0
    /\ shutCalls = [n \in Names |-> 0]
    /\ exit_calls = 0

\* the event loop delivers a request: no handler is running, exit() was not called
Idle == lmPc = "idle" /\ exit_calls = 0

shutdownVars == <<shutting_down, restart_after_quit, shutdown_calls, shutCalls,
                  exit_calls>>

\* the position after the hook loop at lmIdx
LmAdvance(phase, next) ==
    IF lmIdx < Len(order)
    THEN lmPc' = phase /\ lmIdx' = lmIdx + 1
    ELSE lmPc' = next /\ lmIdx' = 1

\* library_moved up to the first hook loop: the early returns, the raised
\* error, or the new db in hand
LibraryMovedEnter ==
    /\ Idle
    /\ moves < MaxMoves
    /\ \E newloc \in Libraries \cup {"None"}, outcome \in OpenOutcomes,
          olddb_fails \in BOOLEAN :
          /\ lmLog' = <<>>
          /\ lmRaised' = FALSE
          /\ IF newloc = "None" \/ ~Switches(outcome)
             THEN /\ lmPc' = "idle"
                  /\ UNCHANGED <<moves, lmIdx, lmOld, lmNew>>
             ELSE /\ moves' = moves + 1
                  /\ lmOld' = IF olddb_fails THEN NoDb ELSE current_db
                  /\ lmNew' = Db(newloc, moves + 1)
                  /\ lmIdx' = 1
                  /\ lmPc' = IF order = <<>> THEN "switch" ELSE "about_to_change"
    /\ UNCHANGED <<current_db>>
    /\ UNCHANGED shutdownVars
    /\ UNCHANGED <<startupVars, dropVars, resVars, schedVars, auxVars>>

\* a hook loop of library_moved that ends at the first exception
LmHookAbort(phase, next, event, raised) ==
    /\ lmLog' = Append(lmLog, event)
    /\ lmRaised' = (lmRaised \/ raised)
    /\ IF raised THEN lmPc' = "idle" /\ UNCHANGED lmIdx ELSE LmAdvance(phase, next)
    /\ UNCHANGED <<current_db, moves, lmOld, lmNew>>
    /\ UNCHANGED shutdownVars
    /\ UNCHANGED <<startupVars, dropVars, resVars, schedVars, auxVars>>

\* one iteration of a hook loop of library_moved: the exception is printed
\* and the loop goes on
LmHook(phase, next, event, raised) ==
    /\ lmLog' = Append(lmLog, event)
    /\ lmRaised' = (lmRaised \/ raised)
    /\ LmAdvance(phase, next)
    /\ UNCHANGED <<current_db, moves, lmOld, lmNew>>
    /\ UNCHANGED shutdownVars
    /\ UNCHANGED <<startupVars, dropVars, resVars, schedVars, auxVars>>

LibraryAboutToChange ==
    /\ lmPc = "about_to_change"
    /\ \E raised \in BOOLEAN :
          LmHook("about_to_change", "switch",
                 <<"library_about_to_change", order[lmIdx], lmOld, lmNew>>, raised)

\* self.library_view.set_database(db) and the code up to the second loop
SetDatabase ==
    /\ lmPc = "switch"
    /\ current_db' = lmNew
    /\ lmLog' = Append(lmLog, <<"set_database", "", lmNew, lmNew>>)
    /\ lmPc' = IF order = <<>> THEN "idle" ELSE "changed"
    /\ lmIdx' = 1
    /\ UNCHANGED <<moves, lmOld, lmNew, lmRaised>>
    /\ UNCHANGED shutdownVars
    /\ UNCHANGED <<startupVars, dropVars, resVars, schedVars, auxVars>>

LibraryChanged ==
    /\ lmPc = "changed"
    /\ \E raised \in BOOLEAN :
          LmHook("changed", "idle",
                 <<"library_changed", order[lmIdx], current_db, current_db>>, raised)

-----------------------------------------------------------------------------
(* Main while running: quit, restart, run_wizard, closeEvent, shutdown *)

\* the actions whose shutting_down() a call of shutdown reaches: all of them,
\* or those up to the one at raiseAt, whose exception ends the loop
ShutdownReached(raiseAt) ==
    {order[i] : i \in {j \in 1..Len(order) : raiseAt = 0 \/ j <= raiseAt}}

\* Main.shutdown: the flag is set, then shutting_down() of each action in turn
Shutdown(raiseAt) ==
    /\ shutting_down' = TRUE
    /\ shutdown_calls' = shutdown_calls + 1
    /\ shutCalls' = [n \in Names |->
                       IF n \in ShutdownReached(raiseAt)
                       THEN shutCalls[n] + 1 ELSE shutCalls[n]]

\* where a shutting_down() hook can raise: nowhere (0) or at an index of order
RaisePoints == 0..Len(order)

\* Main.confirm_quit: a question when jobs are active, another one when
\* library updates are waiting; False as soon as one is declined
confirm_quit(has_jobs, jobs_yes, has_questions, questions_yes) ==
    IF has_jobs /\ ~jobs_yes THEN FALSE
    ELSE IF has_questions /\ ~questions_yes THEN FALSE
    ELSE TRUE

\* what confirm_quit() can return, over the jobs, the waiting updates and
\* the answers of the user
ConfirmQuitAnswers ==
    {confirm_quit(has_jobs, jobs_yes, has_questions, questions_yes) :
        has_jobs \in BOOLEAN, jobs_yes \in BOOLEAN,
        has_questions \in BOOLEAN, questions_yes \in BOOLEAN}

\* a quit that returns early only when the user declines
ReturnsEarlyOnDeclineOnly(sd, confirm, answer) == confirm /\ ~answer

\* the two early returns of quit
ReturnsEarly(sd, confirm, answer) == sd \/ (confirm /\ ~answer)

\* Main.quit(restart=..., confirm_quit=...); answer is what confirm_quit() returns
Quit(restart, confirm, answer) ==
    /\ Idle
    /\ IF ReturnsEarly(shutting_down, confirm, answer)
       THEN /\ UNCHANGED shutdownVars
            /\ last_quit' = [called |-> TRUE, declined |-> confirm /\ ~answer,
                             raised |-> FALSE]
       ELSE /\ restart_after_quit' = restart
            /\ \E raiseAt \in RaisePoints :
                  /\ Shutdown(raiseAt)
                  /\ last_quit' = [called |-> TRUE, declined |-> confirm /\ ~answer,
                                   raised |-> raiseAt # 0, restart |-> restart]
            /\ exit_calls' = exit_calls + 1
    /\ UNCHANGED <<current_db, moves, lmPc, lmIdx, lmOld, lmNew, lmLog, lmRaised>>
    /\ UNCHANGED <<startupVars, dropVars, resVars, schedVars, actionVars,
                   finderVars, udisksVars, storeVars>>

QuitRequest ==
    \E confirm \in BOOLEAN, answer \in ConfirmQuitAnswers :
        Quit(FALSE, confirm, answer)

\* Main.restart
Restart ==
    \E answer \in ConfirmQuitAnswers : Quit(TRUE, TRUE, answer)

\* Main.run_wizard
RunWizard ==
    /\ Idle
    /\ \E answer \in BOOLEAN :
          IF answer
          THEN /\ restart_after_quit' = TRUE
               /\ \E raiseAt \in RaisePoints : Shutdown(raiseAt)
               /\ exit_calls' = exit_calls + 1
          ELSE UNCHANGED shutdownVars
    /\ UNCHANGED <<current_db, moves, lmPc, lmIdx, lmOld, lmNew, lmLog, lmRaised>>
    /\ UNCHANGED <<startupVars, dropVars, resVars, schedVars, auxVars>>

\* Main.closeEvent; tray: the system tray icon exists and is visible
CloseEvent ==
    /\ Idle
    /\ \E tray \in BOOLEAN, answer \in BOOLEAN :
          IF shutting_down \/ tray \/ ~answer
          THEN UNCHANGED shutdownVars
          ELSE /\ \E raiseAt \in RaisePoints : Shutdown(raiseAt)
               /\ UNCHANGED <<restart_after_quit, exit_calls>>
    /\ UNCHANGED <<current_db, moves, lmPc, lmIdx, lmOld, lmNew, lmLog, lmRaised>>
    /\ UNCHANGED <<startupVars, dropVars, resVars, schedVars, auxVars>>

RunNext ==
    \/ LibraryMovedEnter \/ LibraryAboutToChange \/ SetDatabase \/ LibraryChanged
    \/ QuitRequest \/ Restart \/ RunWizard \/ CloseEvent

SpecRun == RunInit /\ [][RunNext]_vars

-----------------------------------------------------------------------------
(* InterfaceActionWithLibraryDrop: drop_event and the deferred do_drop *)

\* characters of the mime data of a drop
DropChars == {"7", " "}
\* length of the mime data
MaxDataLen == 3
\* timers pending at once
MaxPending == 2

\* tuple(map(int, mime_data.data(mimetype).data().split()))
DroppedIds(data) ==
    LET parts == SplitBlank(data) IN [i \in 1..Len(parts) |-> StrToInt(parts[i])]

\* InterfaceActionWithLibraryDrop.drop_event
drop_event ==
    /\ Len(timers) < MaxPending
    /\ \E has_format \in BOOLEAN, data \in SeqsUpTo(DropChars, MaxDataLen) :
          IF has_format
          THEN /\ dropped_ids' = DroppedIds(data)
               /\ timers' = Append(timers, DroppedIds(data))
               /\ UNCHANGED observed
          ELSE UNCHANGED dropVars
    /\ UNCHANGED <<startupVars, runVars, resVars, schedVars, auxVars>>

\* the oldest timer fires: do_drop reads self.dropped_ids
do_drop ==
    /\ timers # <<>>
    /\ observed' = [seen |-> dropped_ids, dropped |-> Head(timers), ran |-> TRUE]
    /\ timers' = Tail(timers)
    /\ UNCHANGED dropped_ids
    /\ UNCHANGED <<startupVars, runVars, resVars, schedVars, auxVars>>

DropNext == drop_event \/ do_drop

DropInit ==
    /\ StartupInit
    /\ ignore_plugins = FALSE

SpecDrop == DropInit /\ [][DropNext]_vars

-----------------------------------------------------------------------------
(* get_resources and get_icons *)

\* length of a list of names
MaxNames == 2

\* name_or_list_of_names: one path, or a list of paths
ResArgs ==
    {[single |-> TRUE, names |-> <<n>>] : n \in ResourceNames}
    \cup {[single |-> FALSE, names |-> l] : l \in SeqsUpTo(ResourceNames, MaxNames)}

\* ans after the loop over names: the names zf.read found
Found(zf, names) ==
    LET keys == {names[i] : i \in 1..Len(names)} IN
    [n \in {k \in keys : zf[k] # Missing} |-> zf[n]]

\* ans.pop(name, None)
Pop(found, name) ==
    IF name \in DOMAIN found THEN [kind |-> "bytes", data |-> found[name]]
    ELSE [kind |-> "None"]

get_resources(zf, arg) ==
    IF Len(arg.names) = 1
    THEN Pop(Found(zf, arg.names), arg.names[1])
    ELSE [kind |-> "dict", map |-> Found(zf, arg.names)]

ResInit ==
    /\ StartupInit
    /\ ignore_plugins = FALSE

\* a plugin zip file is opened: any subset of the names, any contents
OpenZip ==
    /\ res_result = NoResult
    /\ zip' \in [ResourceNames -> Contents \cup {Missing}]
    /\ zip' # zip
    /\ icon_result = NoResult
    /\ UNCHANGED <<res_args, res_result, theme, icon_args, icon_result>>
    /\ UNCHANGED <<startupVars, runVars, dropVars, schedVars, auxVars>>

GetResources ==
    /\ \E arg \in ResArgs :
          /\ res_args' = arg
          /\ res_result' = get_resources(zip, arg)
    /\ UNCHANGED <<zip, theme, icon_args, icon_result>>
    /\ UNCHANGED <<startupVars, runVars, dropVars, schedVars, auxVars>>

ResNext == OpenZip \/ GetResources

SpecRes == ResInit /\ [][ResNext]_vars

\* the icons QIcon.ic and QIcon(QPixmap) give
ThemeIcon(plugin, name) == [icon |-> "theme", of |-> <<plugin, name>>]
ZipIcon(raw) == [icon |-> "pixmap", of |-> raw]
NullIcon == [icon |-> "null"]

\* plugin_name: none, or the name of the plugin
PluginNames == {"", "P"}

IconArgs ==
    {[single |-> a.single, names |-> a.names, plugin_name |-> p] :
        a \in ResArgs, p \in PluginNames}

\* list(failed): the names of a set, in some order
ListOf(S) ==
    CHOOSE l \in [1..Cardinality(S) -> S] : {l[i] : i \in 1..Cardinality(S)} = S

\* from_zfp after get_resources: name -> bytes
FromZfp(zf, namelist, failed) ==
    LET got == get_resources(zf, [single |-> FALSE, names |-> ListOf(failed)]) IN
    IF got.kind = "None" THEN <<>>
    ELSE IF got.kind = "bytes" THEN [n \in {namelist[1]} |-> got.data]
    ELSE got.map

get_icons(zf, th, arg) ==
    LET namelist == arg.names
        keys == {namelist[i] : i \in 1..Len(namelist)}
        failed == IF arg.plugin_name # "" THEN keys \ th ELSE keys
        from_zfp == IF failed = {} THEN <<>> ELSE FromZfp(zf, namelist, failed)
        icons == [n \in keys |->
                    IF n \notin failed THEN ThemeIcon(arg.plugin_name, n)
                    ELSE IF n \in DOMAIN from_zfp THEN ZipIcon(from_zfp[n])
                    ELSE NullIcon]
    IN
    IF Len(namelist) = 1
    THEN [kind |-> "icon", icon |-> icons[namelist[1]]]
    ELSE [kind |-> "dict", map |-> icons]

\* the icon theme changes
ChangeTheme ==
    /\ icon_result = NoResult
    /\ theme' \in SUBSET ResourceNames
    /\ theme' # theme
    /\ UNCHANGED <<zip, res_args, res_result, icon_args, icon_result>>
    /\ UNCHANGED <<startupVars, runVars, dropVars, schedVars, auxVars>>

GetIcons ==
    /\ \E arg \in IconArgs :
          /\ Len(arg.names) > 0
          /\ icon_args' = arg
          /\ icon_result' = get_icons(zip, theme, arg)
    /\ UNCHANGED <<zip, res_args, res_result, theme>>
    /\ UNCHANGED <<startupVars, runVars, dropVars, schedVars, auxVars>>

IconsNext == OpenZip \/ ChangeTheme \/ GetIcons

SpecIcons == ResInit /\ [][IconsNext]_vars

-----------------------------------------------------------------------------
(* SchedulerConfig: times, schedules and their text *)

\* Times are counted from EPOCH in units of 1/9 of a millionth of a day, the
\* largest unit that divides a minute and the sixth decimal of a day:
\* timedelta(days=1), timedelta(hours=1), one minute, 0.000001 days
Day == 9000000
Hour == 375000
Minute == 6250
MicroDay == 9
\* calibre.utils.date.EPOCH, 1970-01-01 00:00 UTC, a Thursday
EPOCH == 0
\* calendar.weekday of EPOCH (Monday is 0)
EpochWeekday == 3

\* An interval schedule is a float of days; the model counts it in tenths of
\* a millionth of a day, one digit more than '{:f}' keeps.
IntervalUnitsPerMicroDay == 10
\* 0.04 days, the smallest interval serialize_schedule lets through
MinInterval == 400000

\* calibre.utils.date.isoformat and calibre.utils.iso8601.parse_iso8601 on
\* the times of the model
isoformat(t) == [iso |-> t]
parse_iso8601(a) == a.iso

\* digits of n, zero-padded on the left to width w
RECURSIVE Pad(_, _)
Pad(str, w) == IF Len(str) >= w THEN str ELSE Pad(<<"0">> \o str, w)

\* f'{schedule:f}': six decimals, the seventh rounded
FormatF(x) ==
    LET micro == (x + 5) \div IntervalUnitsPerMicroDay IN
    NatToStr(micro \div 1000000) \o <<".">> \o Pad(NatToStr(micro % 1000000), 6)

\* float(text) of a text written by FormatF, in the units of an interval
ParseFloat(text) ==
    LET parts == Split(text, ".") IN
    (DigitsVal(parts[1]) * 1000000 + DigitsVal(parts[2])) * IntervalUnitsPerMicroDay

\* timedelta(days=sch) for an interval read back by ParseFloat
Timedelta(sch) == (sch \div IntervalUnitsPerMicroDay) * MicroDay

Raised == [ok |-> FALSE]

IntsToStrs(ints) == [i \in 1..Len(ints) |-> IntToStr(ints[i])]

\* SchedulerConfig.serialize_schedule: the schedule element, or ValueError
serialize_schedule(typ, schedule) ==
    IF typ = "interval"
    THEN [ok |-> TRUE, typ |-> typ,
          text |-> FormatF(IF schedule < MinInterval THEN MinInterval ELSE schedule)]
    ELSE IF typ = "day/time"
    THEN [ok |-> TRUE, typ |-> typ, text |-> Join(IntsToStrs(schedule), ":")]
    ELSE IF typ \in {"days_of_week", "days_of_month"}
    THEN [ok |-> TRUE, typ |-> typ,
          text |-> Join(<<Join(IntsToStrs(schedule[1]), ",")>>
                        \o IntsToStrs(Tail(schedule)), ":")]
    ELSE Raised

AllInts(parts) == \A i \in 1..Len(parts) : IsInt(parts[i])
StrsToInts(parts) == [i \in 1..Len(parts) |-> StrToInt(parts[i])]

\* SchedulerConfig.un_serialize_schedule: (typ, sch, ld), or the exception
\* int() raises
un_serialize_schedule(recipe) ==
    LET typ == recipe.typ
        ld == parse_iso8601(recipe.last_downloaded)
        parts == Split(recipe.text, ":")
    IN
    IF typ = "interval"
    THEN [ok |-> TRUE, typ |-> typ, sch |-> ParseFloat(recipe.text), ld |-> ld]
    ELSE IF typ = "day/time"
    THEN IF AllInts(parts)
         THEN [ok |-> TRUE, typ |-> typ, sch |-> StrsToInts(parts), ld |-> ld]
         ELSE Raised
    ELSE LET days == Split(parts[1], ",") IN
         IF AllInts(days) /\ Len(parts) >= 3 /\ IsInt(parts[2]) /\ IsInt(parts[3])
         THEN [ok |-> TRUE, typ |-> typ,
               sch |-> <<StrsToInts(days), StrToInt(parts[2]), StrToInt(parts[3])>>,
               ld |-> ld]
         ELSE Raised

-----------------------------------------------------------------------------
(* SchedulerConfig: the calendar and recipe_needs_to_be_downloaded *)

\* days of the months of 1970
MonthDays == <<31, 28, 31, 30, 31, 30, 31, 31, 30, 31, 30, 31>>

\* a local time: the UTC time shifted by the offset of local_tz
Local(t, offset) == t + offset
\* days since 1970-01-01 of a local time (its date)
DateOf(local) == local \div Day
HourOf(local) == (local % Day) \div Hour
MinuteOf(local) == (local % Hour) \div Minute
\* calendar.weekday(now.year, now.month, now.day)
Weekday(date) == (date + EpochWeekday) % 7
\* now.day, for a date of 1970
RECURSIVE DayInMonth(_, _)
DayInMonth(dayOfYear, month) ==
    IF dayOfYear < MonthDays[month] THEN dayOfYear + 1
    ELSE DayInMonth(dayOfYear - MonthDays[month], month + 1)
DayOfMonth(date) == DayInMonth(date, 1)

\* is_time that is late by a minute: the scheduled minute itself is too early
IsTimeStrict(now, hour, minute) ==
    HourOf(now) > hour \/ (HourOf(now) = hour /\ MinuteOf(now) > minute)

is_time(now, hour, minute) ==
    HourOf(now) > hour \/ (HourOf(now) = hour /\ MinuteOf(now) >= minute)

is_weekday(day, now) ==
    day < 0 \/ day > 6 \/ day = Weekday(DateOf(now))

was_downloaded_already_today(ld_local, now) ==
    DateOf(ld_local) = DateOf(now)

InSeq(x, seq) == \E i \in 1..Len(seq) : seq[i] = x

\* SchedulerConfig.recipe_needs_to_be_downloaded at UTC time utcnow, with
\* local_tz at the given offset
recipe_needs_to_be_downloaded(recipe, utcnow, offset) ==
    LET u == un_serialize_schedule(recipe)
        now == Local(utcnow, offset)
    IN
    IF ~u.ok THEN FALSE
    ELSE IF u.typ = "interval"
    THEN utcnow - u.ld > Timedelta(u.sch)
    ELSE IF u.typ = "day/time"
    THEN /\ is_weekday(u.sch[1], now)
         /\ ~was_downloaded_already_today(Local(u.ld, offset), now)
         /\ is_time(now, u.sch[2], u.sch[3])
    ELSE IF u.typ = "days_of_week"
    THEN /\ \E i \in 1..Len(u.sch[1]) : is_weekday(u.sch[1][i], now)
         /\ ~was_downloaded_already_today(Local(u.ld, offset), now)
         /\ is_time(now, u.sch[2], u.sch[3])
    ELSE IF u.typ = "days_of_month"
    THEN /\ InSeq(DayOfMonth(DateOf(now)), u.sch[1])
         /\ ~was_downloaded_already_today(Local(u.ld, offset), now)
         /\ is_time(now, u.sch[2], u.sch[3])
    ELSE FALSE

-----------------------------------------------------------------------------
(* SchedulerConfig: the tree and the calls that change it *)

\* a child of the root: its tag, its id attribute, and for a scheduled
\* recipe the last_downloaded attribute and the schedule child (type
\* attribute and text), for the others the remaining attributes
Elem(tag, id, ld, typ, text, val) ==
    [tag |-> tag, id |-> id, last_downloaded |-> ld, typ |-> typ, text |-> text,
     val |-> val]

\* etree.tostring(self.root)
Serialize(tree) == [exists |-> TRUE, parses |-> TRUE, xml |-> tree]
\* a scheduler.xml that safe_xml_fromstring rejects
Garbage == [exists |-> TRUE, parses |-> FALSE]

\* a call of a method of SchedulerConfig with its arguments
Call(name, id, typ, schedule, ld, val) ==
    [name |-> name, id |-> id, typ |-> typ, schedule |-> schedule,
     last_downloaded |-> ld, val |-> val]

\* position of the first child with this tag and id, 0 if there is none
FirstIdx(tree, tag, id) ==
    LET hits == {i \in 1..Len(tree) : tree[i].tag = tag /\ tree[i].id = id} IN
    IF hits = {} THEN 0 ELSE CHOOSE i \in hits : \A j \in hits : i <= j

RemoveAt(tree, i) ==
    IF i = 0 THEN tree ELSE SubSeq(tree, 1, i - 1) \o SubSeq(tree, i + 1, Len(tree))

RemoveFirst(tree, tag, id) == RemoveAt(tree, FirstIdx(tree, tag, id))

RemoveAll(tree, tag, id) ==
    SelectSeq(tree, LAMBDA x : ~(x.tag = tag /\ x.id = id))

\* update_last_downloaded: the time stored for a recipe downloaded at now
DownloadTime(u, now) ==
    IF u.typ = "interval"
    THEN LET actual_interval == now - u.ld
             nominal_interval == Timedelta(u.sch)
             diff == actual_interval - nominal_interval
         IN IF (IF diff < 0 THEN 0 - diff ELSE diff) < Hour
            THEN u.ld + nominal_interval
            ELSE now
    ELSE now

\* a call raises before its write_scheduler_file: serialize_schedule in
\* schedule_recipe, un_serialize_schedule in update_last_downloaded
CallRaises(tree, c) ==
    \/ c.name = "schedule_recipe" /\ ~serialize_schedule(c.typ, c.schedule).ok
    \/ /\ c.name = "update_last_downloaded"
       /\ FirstIdx(tree, "scheduled_recipe", c.id) # 0
       /\ ~un_serialize_schedule(tree[FirstIdx(tree, "scheduled_recipe", c.id)]).ok

\* the local last_downloaded of schedule_recipe after its loop
LastDownloaded(tree, c) ==
    LET i == FirstIdx(tree, "scheduled_recipe", c.id) IN
    IF c.last_downloaded.given THEN c.last_downloaded.at
    ELSE IF i # 0 THEN parse_iso8601(tree[i].last_downloaded)
    ELSE EPOCH

\* the first part of a call: what it removes from the tree, or the
\* attribute it sets
FirstPart(tree, c, now) ==
    IF c.name \in {"schedule_recipe", "un_schedule_recipe"}
    THEN RemoveFirst(tree, "scheduled_recipe", c.id)
    ELSE IF c.name = "customize_recipe"
    THEN RemoveAll(tree, "recipe_customization", c.id)
    ELSE IF c.name \in {"set_account_info", "clear_account_info"}
    THEN RemoveFirst(tree, "account_info", c.id)
    ELSE LET i == FirstIdx(tree, "scheduled_recipe", c.id) IN
         IF i = 0 \/ CallRaises(tree, c) THEN tree
         ELSE [tree EXCEPT ![i].last_downloaded =
                 isoformat(DownloadTime(un_serialize_schedule(tree[i]), now))]

\* the calls that append a new child after the first part
Appends(c) == c.name \in {"schedule_recipe", "customize_recipe", "set_account_info"}

\* the second part of a call: the child it appends
SecondPart(tree, c, ld) ==
    IF c.name = "schedule_recipe"
    THEN LET sch == serialize_schedule(c.typ, c.schedule) IN
         IF sch.ok
         THEN Append(tree, Elem("scheduled_recipe", c.id, isoformat(ld),
                                sch.typ, sch.text, ""))
         ELSE tree
    ELSE IF c.name = "customize_recipe"
    THEN Append(tree, Elem("recipe_customization", c.id, "", "", <<>>, c.val))
    ELSE IF c.name = "set_account_info"
    THEN Append(tree, Elem("account_info", c.id, "", "", <<>>, c.val))
    ELSE tree

\* the call reaches its write_scheduler_file
Writes(tree, c) ==
    /\ ~CallRaises(tree, c)
    /\ c.name = "clear_account_info" => FirstIdx(tree, "account_info", c.id) # 0

\* the tree after the whole call, run alone
Apply(tree, c, now) ==
    SecondPart(FirstPart(tree, c, now), c, LastDownloaded(tree, c))

\* get_schedule_info(urn): None (not found), (typ, sch, ld), or the exception
\* un_serialize_schedule raises
get_schedule_info(tree, urn) ==
    LET i == FirstIdx(tree, "scheduled_recipe", urn) IN
    IF i = 0 THEN [found |-> FALSE]
    ELSE [found |-> TRUE, result |-> un_serialize_schedule(tree[i])]

\* get_to_be_downloaded_recipes: the ids of the recipes that are due
get_to_be_downloaded_recipes(tree, utcnow, offset) ==
    LET due == SelectSeq(tree, LAMBDA x :
                   /\ x.tag = "scheduled_recipe"
                   /\ recipe_needs_to_be_downloaded(x, utcnow, offset))
    IN [i \in 1..Len(due) |-> due[i].id]

-----------------------------------------------------------------------------
(* SchedulerConfig: construction *)

\* trees a scheduler.xml written earlier can hold
StoredTrees ==
    {<<>>, <<Elem("scheduled_recipe", "r1", isoformat(EPOCH), "interval",
                  FormatF(10000000), "")>>}

\* the schedule that was given for the recipe of a stored tree
StoredGiven(tree) ==
    [r \in RecipeIds |->
        IF FirstIdx(tree, "scheduled_recipe", r) = 0 THEN NoGiven
        ELSE [typ |-> "interval", schedule |-> 10000000]]

\* SchedulerConfig.__init__: no scheduler.xml, one that does not parse, or
\* one that does
SchedulerInit ==
    /\ \/ file = Absent /\ root = <<>>
       \/ file = Garbage /\ root = <<>>
       \/ \E tree \in StoredTrees : file = Serialize(tree) /\ root = tree
    /\ seqRoot = root
    /\ given = StoredGiven(root)
    /\ lockOwner = None
    /\ tpc = [t \in Threads |-> "idle"]
    /\ top = [t \in Threads |-> NoCall]
    /\ tld = [t \in Threads |-> EPOCH]
    /\ written = FALSE
    /\ stale = FALSE
    /\ ticks = 0
    /\ ans = NoAnswer
    /\ info = NoInfo
    /\ last_update = [r \in RecipeIds |-> NoUpdate]

\* 1970-01-05 00:00 UTC, a Monday
StartClock == 4 * Day

mainIdle == <<startupVars, runVars, dropVars, resVars, auxVars>>

-----------------------------------------------------------------------------
(* SchedulerConfig used by several threads *)

\* the calls the threads make
ThreadCalls ==
    {Call("schedule_recipe", "r1", "interval", 10000000, NoTime, ""),
     Call("schedule_recipe", "r1", "weekly", 0, NoTime, ""),
     Call("un_schedule_recipe", "r1", "", 0, NoTime, ""),
     Call("customize_recipe", "r1", "", 0, NoTime, "keep_issues=2"),
     Call("update_last_downloaded", "r1", "", 0, NoTime, ""),
     Call("set_account_info", "r1", "", 0, NoTime, "user1"),
     Call("set_account_info", "r1", "", 0, NoTime, "user2"),
     Call("clear_account_info", "r1", "", 0, NoTime, "")}

\* a lock that lets every thread in
CanAcquireAlways(t) == TRUE

\* RLock.acquire returns: the lock is free, or this thread holds it
CanAcquire(t) == lockOwner \in {None, t}

ThreadsInit ==
    /\ ignore_plugins = FALSE
    /\ iactions = [n \in Names |-> NoAction]
    /\ order = <<>>
    /\ registered = <<>>
    /\ loaded = 0
    /\ mainPc = "loading"
    /\ initIdx = 0
    /\ hooklog = <<>>
    /\ RunIdle /\ DropIdle /\ ResIdle /\ AuxIdle
    /\ SchedulerInit
    /\ clock = StartClock
    /\ tz = 0

\* with self.lock: entered
Acquire(t) ==
    /\ tpc[t] = "idle"
    /\ CanAcquire(t)
    /\ \E c \in ThreadCalls :
          /\ top' = [top EXCEPT ![t] = c]
          /\ seqRoot' = Apply(seqRoot, c, clock)
    /\ lockOwner' = t
    /\ tpc' = [tpc EXCEPT ![t] = "first"]
    /\ UNCHANGED <<root, file, tld, written, stale, clock, tz, ticks, ans, info,
                   given, last_update>>
    /\ UNCHANGED mainIdle

\* the loop of the call: the old child is removed, or the attribute set
First(t) ==
    /\ tpc[t] = "first"
    /\ root' = FirstPart(root, top[t], clock)
    /\ tld' = [tld EXCEPT ![t] = LastDownloaded(root, top[t])]
    /\ stale' = (stale \/ (CallRaises(root, top[t]) /\ root' # root))
    /\ tpc' = [tpc EXCEPT ![t] =
                 IF Appends(top[t]) THEN "second"
                 ELSE IF Writes(root, top[t]) THEN "write" ELSE "release"]
    /\ UNCHANGED <<file, lockOwner, top, seqRoot, written, clock, tz, ticks, ans,
                   info, given, last_update>>
    /\ UNCHANGED mainIdle

\* the new child is built and appended, unless building it raises
Second(t) ==
    /\ tpc[t] = "second"
    /\ root' = SecondPart(root, top[t], tld[t])
    /\ tpc' = [tpc EXCEPT ![t] =
                 IF CallRaises(root, top[t]) THEN "release" ELSE "write"]
    /\ UNCHANGED <<file, lockOwner, top, tld, seqRoot, written, stale, clock, tz,
                   ticks, ans, info, given, last_update>>
    /\ UNCHANGED mainIdle

\* write_scheduler_file
Write(t) ==
    /\ tpc[t] = "write"
    /\ file' = Serialize(root)
    /\ written' = TRUE
    /\ stale' = FALSE
    /\ tpc' = [tpc EXCEPT ![t] = "release"]
    /\ UNCHANGED <<root, lockOwner, top, tld, seqRoot, clock, tz, ticks, ans, info,
                   given, last_update>>
    /\ UNCHANGED mainIdle

\* with self.lock: left
Release(t) ==
    /\ tpc[t] = "release"
    /\ lockOwner' = None
    /\ tpc' = [tpc EXCEPT ![t] = "idle"]
    /\ UNCHANGED <<root, file, top, tld, seqRoot, written, stale, clock, tz, ticks,
                   ans, info, given, last_update>>
    /\ UNCHANGED mainIdle

ThreadsNext ==
    \E t \in Threads : Acquire(t) \/ First(t) \/ Second(t) \/ Write(t) \/ Release(t)

SpecThreads == ThreadsInit /\ [][ThreadsNext]_vars

-----------------------------------------------------------------------------
(* SchedulerConfig used by one caller while time passes *)

\* steps of the clock
TickSteps == {58 * Minute, 9 * Hour}
\* clock steps taken
MaxTicks == 3
\* utcoffset of local_tz
TimeZones == {0 - 5 * Hour, 9 * Hour}

\* (typ, schedule) arguments of schedule_recipe; the intervals are 0.01 and
\* 0.3333333 days
ScheduleArgs ==
    {<<"interval", 100000>>, <<"interval", 3333333>>,
     <<"day/time", <<0 - 1, 9, 58>>>>, <<"day/time", <<0, 6, 30>>>>,
     <<"days_of_week", <<<<>>, 6, 0>>>>, <<"days_of_week", <<<<1, 7>>, 0, 0>>>>,
     <<"days_of_week", <<<<1, 2>>, 0, 0>>>>,
     <<"days_of_month", <<<<4, 6>>, 19, 58>>>>,
     <<"weekly", 0>>}

\* a whole call made by the only caller: the lock is taken and released
\* within the step
Whole(c) ==
    /\ root' = Apply(root, c, clock)
    /\ seqRoot' = Apply(root, c, clock)
    /\ file' = IF Writes(root, c) THEN Serialize(Apply(root, c, clock)) ELSE file
    /\ written' = (written \/ Writes(root, c))
    /\ stale' = IF Writes(root, c) THEN FALSE
                ELSE (stale \/ Apply(root, c, clock) # root)
    /\ ans' = NoAnswer
    /\ info' = NoInfo
    /\ UNCHANGED <<lockOwner, tpc, top, tld, clock, tz, ticks>>
    /\ UNCHANGED mainIdle

Tick ==
    /\ ticks < MaxTicks
    /\ \E d \in TickSteps : clock' = clock + d
    /\ ticks' = ticks + 1
    /\ ans' = NoAnswer
    /\ info' = NoInfo
    /\ UNCHANGED <<root, file, lockOwner, tpc, top, tld, seqRoot, written, stale,
                   tz, given, last_update>>
    /\ UNCHANGED mainIdle

ScheduleRecipe ==
    \E r \in RecipeIds, a \in ScheduleArgs, ld \in {NoTime, Time(EPOCH)} :
        LET c == Call("schedule_recipe", r, a[1], a[2], ld, "") IN
        /\ Whole(c)
        /\ given' = [given EXCEPT ![r] =
                        IF CallRaises(root, c) THEN NoGiven
                        ELSE [typ |-> a[1], schedule |-> a[2]]]
        /\ last_update' = [last_update EXCEPT ![r] =
                              IF CallRaises(root, c) \/ ld.given THEN NoUpdate
                              ELSE last_update[r]]

UnScheduleRecipe ==
    \E r \in RecipeIds :
        /\ Whole(Call("un_schedule_recipe", r, "", 0, NoTime, ""))
        /\ given' = [given EXCEPT ![r] = NoGiven]
        /\ last_update' = [last_update EXCEPT ![r] = NoUpdate]

UpdateLastDownloaded ==
    \E r \in RecipeIds :
        LET c == Call("update_last_downloaded", r, "", 0, NoTime, "")
            i == FirstIdx(root, "scheduled_recipe", r)
        IN
        /\ Whole(c)
        /\ last_update' = [last_update EXCEPT ![r] =
                              IF i = 0 \/ CallRaises(root, c) THEN last_update[r]
                              ELSE [valid |-> TRUE, at |-> clock, typ |-> root[i].typ]]
        /\ UNCHANGED given

GetToBeDownloadedRecipes ==
    /\ ans' = [called |-> TRUE, ids |-> get_to_be_downloaded_recipes(root, clock, tz)]
    /\ info' = NoInfo
    /\ UNCHANGED <<root, file, lockOwner, tpc, top, tld, seqRoot, written, stale,
                   clock, tz, ticks, given, last_update>>
    /\ UNCHANGED mainIdle

GetScheduleInfo ==
    /\ \E r \in RecipeIds :
          info' = [called |-> TRUE, urn |-> r, ret |-> get_schedule_info(root, r)]
    /\ ans' = NoAnswer
    /\ UNCHANGED <<root, file, lockOwner, tpc, top, tld, seqRoot, written, stale,
                   clock, tz, ticks, given, last_update>>
    /\ UNCHANGED mainIdle

ScheduleNext ==
    \/ Tick \/ ScheduleRecipe \/ UnScheduleRecipe \/ UpdateLastDownloaded
    \/ GetToBeDownloadedRecipes \/ GetScheduleInfo

ScheduleInit ==
    /\ ignore_plugins = FALSE
    /\ iactions = [n \in Names |-> NoAction]
    /\ order = <<>>
    /\ registered = <<>>
    /\ loaded = 0
    /\ mainPc = "loading"
    /\ initIdx = 0
    /\ hooklog = <<>>
    /\ RunIdle /\ DropIdle /\ ResIdle /\ AuxIdle
    /\ SchedulerInit
    /\ clock = StartClock
    /\ tz \in TimeZones

SpecSchedule == ScheduleInit /\ [][ScheduleNext]_vars

-----------------------------------------------------------------------------
(* InterfaceAction.create_action: the keyboard shortcut of action_spec *)

\* the keyboard shortcut element of a spec: None, a string, or a tuple
NoKeys == [kind |-> "None"]
Str(k) == [kind |-> "str", key |-> k]
Tuple(t) == [kind |-> "tuple", keys |-> t]
Shortcuts == {NoKeys, Tuple(<<>>), Str("Ctrl+K"), Tuple(<<"Ctrl+K", "F5">>)}

PopupTypes == {"MenuButtonPopup", "InstantPopup"}

\* a create_action call: the attributes of the action object it is called
\* on (action_text is action_spec[0], shortcut is action_spec[3]) and its
\* arguments; spec is left at None, so that spec is action_spec
CreateCalls ==
    [action_text : {"", "Text"},
     action_shortcut_name : {[given |-> FALSE], [given |-> TRUE, name |-> ""],
                             [given |-> TRUE, name |-> "Named"]},
     popup_type : PopupTypes,
     shortcut : Shortcuts,
     attr : Attrs,
     shortcut_name : {[given |-> FALSE], [given |-> TRUE, name |-> "Given"]}]

\* keys: (shortcut,) for a string, tuple(shortcut) otherwise
Keys(shortcut) ==
    IF shortcut.kind = "str" THEN <<shortcut.key>> ELSE shortcut.keys

\* shortcut_name after lines 252-256; "" stands for a name that is unset
ShortcutName(a) ==
    IF a.shortcut_name.given THEN a.shortcut_name.name
    ELSE IF a.action_shortcut_name.given THEN a.action_shortcut_name.name
    ELSE a.action_text

\* the condition of line 257 without the popup type
ShouldRegisterAnyPopup(a) ==
    ShortcutName(a) # "" /\ a.action_text # ""

\* the condition of lines 257-258
ShouldRegister(a) ==
    /\ ShortcutName(a) # ""
    /\ a.action_text # ""
    /\ ~(a.attr = "qaction" /\ a.popup_type = "InstantPopup")

\* self.unique_name + ' - ' + attr
UniqueName(a) == <<"Plugin", a.attr>>

\* Manager.register_shortcut raises NameConflict for a name it already has
NameConflict(kb, a) == kb[UniqueName(a)].registered

ActionsInit ==
    /\ ignore_plugins = FALSE
    /\ iactions = [n \in Names |-> NoAction]
    /\ order = <<>>
    /\ registered = <<>>
    /\ loaded = 0
    /\ mainPc = "loading"
    /\ initIdx = 0
    /\ hooklog = <<>>
    /\ RunIdle /\ DropIdle /\ ResIdle /\ SchedIdle /\ AuxIdle

\* create_action(spec, attr, shortcut_name)
CreateAction ==
    \E a \in CreateCalls :
        LET tries == a.shortcut # NoKeys /\ ShouldRegister(a)
            conflict == tries /\ NameConflict(keyboard, a)
        IN
        /\ keyboard' =
              IF tries /\ ~conflict
              THEN [keyboard EXCEPT ![UniqueName(a)] =
                      [registered |-> TRUE, default_keys |-> Keys(a.shortcut)]]
              ELSE keyboard
        /\ created' = [called |-> TRUE, call |-> a, before |-> keyboard,
                       setShortcuts |-> IF conflict THEN Keys(a.shortcut) ELSE <<>>]
        /\ UNCHANGED <<startupVars, runVars, dropVars, resVars, schedVars, finderVars, udisksVars, storeVars, quitVars>>

\* the keyboard manager forgets a shortcut (Manager.unregister_shortcut)
UnregisterShortcut ==
    /\ \E k \in ShortcutIds :
          /\ keyboard[k].registered
          /\ keyboard' = [keyboard EXCEPT ![k] = NoShortcut]
    /\ created' = NotCreated
    /\ UNCHANGED <<startupVars, runVars, dropVars, resVars, schedVars, finderVars, udisksVars, storeVars, quitVars>>

ActionsNext == CreateAction \/ UnregisterShortcut

SpecActions == ActionsInit /\ [][ActionsNext]_vars

-----------------------------------------------------------------------------
(* CalibrePluginFinder.find_spec and CalibrePluginLoader.get_source_as_bytes *)

\* A module name is a sequence of tokens: "." and the pieces between dots.
\* "calibre_plugins" is one token; "_x" after it gives a longer first
\* component that starts with it.
Root == "calibre_plugins"
Init__ == "__init__"
Components ==
    {<<Root>>, <<Root, "_x">>, <<"foo">>, <<"bar">>, <<"sub">>, <<"mod">>,
     <<Init__>>, <<>>}
\* dotted components of a module name
MaxParts == 4
FullNames ==
    {Join(l, ".") : l \in {q \in SeqsUpTo(Components, MaxParts) : Len(q) > 0}}

\* fullname.startswith('calibre_plugins')
StartsWithRoot(fullname) == Len(fullname) > 0 /\ fullname[1] = Root
\* name.endswith('.__init__')
EndsWithInit(name) ==
    Len(name) >= 2 /\ name[Len(name)] = Init__ /\ name[Len(name) - 1] = "."
\* fullname.count('.')
CountDots(fullname) == Cardinality({i \in 1..Len(fullname) : fullname[i] = "."})

\* the keys a plugin's names can have besides '__init__'
ModuleKeys == {<<"sub">>, <<"sub", ".", Init__>>, <<"sub", ".", "mod">>}
\* the names of a loaded plugin: key -> ZipInfo of its file; '__init__' is
\* always there (CalibrePluginFinder._locate_code)
NamesChoices ==
    {[k \in ks \cup {<<Init__>>} |-> [filename |-> k]] : ks \in SUBSET ModuleKeys}

\* zf.read(zinfo) of the zip file at a path
ZipRead(path, zinfo) == [bytes_of |-> <<path, zinfo.filename>>]
EmptySource == [bytes_of |-> <<>>]

NoSpec == [spec |-> FALSE]

\* is_package of find_spec; fullname_in_plugin is <<>> when it is None
IsPackage(fullname, fullname_in_plugin) ==
    \/ CountDots(fullname) < 2
    \/ fullname_in_plugin = <<Init__>>
    \/ EndsWithInit(fullname_in_plugin)

\* CalibrePluginLoader.get_source_as_bytes
get_source_as_bytes(ldr) ==
    IF ldr.has_plugin /\ ldr.fullname_in_plugin # <<>>
       /\ ldr.fullname_in_plugin \in DOMAIN ldr.names
    THEN ZipRead(ldr.zip_file_path, ldr.names[ldr.fullname_in_plugin])
    ELSE EmptySource

\* the ModuleSpec find_spec builds
ModuleSpec(fullname, has_plugin, plugin_name, fullname_in_plugin, path, names) ==
    [spec |-> TRUE, name |-> fullname,
     is_package |-> IsPackage(fullname, fullname_in_plugin),
     loader |-> [has_plugin |-> has_plugin, plugin_name |-> plugin_name,
                 fullname_in_plugin |-> fullname_in_plugin,
                 zip_file_path |-> path, names |-> names]]

\* CalibrePluginFinder.find_spec
find_spec(lp, fullname) ==
    LET parts == Split(fullname, ".") IN
    IF ~StartsWithRoot(fullname) THEN NoSpec
    ELSE IF parts[1] # <<Root>> THEN NoSpec
    ELSE IF Len(parts) > 1
    THEN LET plugin_name == parts[2]
             known == \E k \in PluginKeys : <<k>> = plugin_name /\ lp[k].loaded
             entry == lp[CHOOSE k \in PluginKeys : <<k>> = plugin_name]
             rest == Join(SubSeq(parts, 3, Len(parts)), ".")
             name0 == IF rest = <<>> THEN <<Init__>> ELSE rest
         IN
         IF ~known THEN NoSpec
         ELSE IF name0 \in DOMAIN entry.names
         THEN ModuleSpec(fullname, TRUE, plugin_name, name0,
                         entry.zip_file_path, entry.names)
         ELSE IF name0 \o <<".", Init__>> \in DOMAIN entry.names
         THEN ModuleSpec(fullname, TRUE, plugin_name, name0 \o <<".", Init__>>,
                         entry.zip_file_path, entry.names)
         ELSE NoSpec
    ELSE ModuleSpec(fullname, FALSE, <<>>, <<>>, "", <<>>)

FinderInit ==
    /\ ignore_plugins = FALSE
    /\ iactions = [n \in Names |-> NoAction]
    /\ order = <<>>
    /\ registered = <<>>
    /\ loaded = 0
    /\ mainPc = "loading"
    /\ initIdx = 0
    /\ hooklog = <<>>
    /\ RunIdle /\ DropIdle /\ ResIdle /\ SchedIdle /\ AuxIdle

\* CalibrePluginFinder.load has put a plugin into loaded_plugins, or has
\* deleted it again
LoadPlugin ==
    /\ \E k \in PluginKeys :
          \/ /\ \E ns \in NamesChoices :
                   loaded_plugins' = [loaded_plugins EXCEPT ![k] =
                       [loaded |-> TRUE, zip_file_path |-> k, names |-> ns]]
             /\ loaded_plugins' # loaded_plugins
          \/ /\ loaded_plugins[k].loaded
             /\ loaded_plugins' = [loaded_plugins EXCEPT ![k] = NotLoaded]
    /\ asked' = NotAsked
    /\ UNCHANGED <<startupVars, runVars, dropVars, resVars, schedVars, actionVars, udisksVars, storeVars, quitVars>>

\* the import system asks for a module, and reads its source if there is one
FindSpec ==
    /\ ~asked.called
    /\ \E fullname \in FullNames :
          LET sp == find_spec(loaded_plugins, fullname) IN
          asked' = [called |-> TRUE, fullname |-> fullname, result |-> sp,
                    source |-> IF sp.spec THEN get_source_as_bytes(sp.loader)
                               ELSE EmptySource]
    /\ UNCHANGED loaded_plugins
    /\ UNCHANGED <<startupVars, runVars, dropVars, resVars, schedVars, actionVars, udisksVars, storeVars, quitVars>>

FinderNext == LoadPlugin \/ FindSpec

SpecFinder == FinderInit /\ [][FinderNext]_vars

-----------------------------------------------------------------------------
(* UDisks.mount and node_mountpoint *)

\* characters of a mount point: a letter, a space, a backslash
PathChars == {"m", " ", "\\"}
MaxPathLen == 2
MountPoints == {q \in SeqsUpTo(PathChars, MaxPathLen) : Len(q) > 0}

\* the second field of a line of /proc/mounts: the kernel writes space,
\* tab, newline and backslash as a backslash and three octal digits
RECURSIVE Mangle(_)
Mangle(path) ==
    IF path = <<>> THEN <<>>
    ELSE (IF Head(path) = " " THEN <<"\\", "0", "4", "0">>
          ELSE IF Head(path) = "\\" THEN <<"\\", "1", "3", "4">>
          ELSE <<Head(path)>>) \o Mangle(Tail(path))

\* /proc/mounts: a line for every mounted device
ProcMounts(m) ==
    [d \in {x \in Devices : m[x].mounted} |-> Mangle(m[d].at)]

\* raw.replace(old, new)
RECURSIVE Replace(_, _, _)
Replace(raw, old, new) ==
    IF Len(raw) < Len(old) THEN raw
    ELSE IF SubSeq(raw, 1, Len(old)) = old
    THEN new \o Replace(SubSeq(raw, Len(old) + 1, Len(raw)), old, new)
    ELSE <<Head(raw)>> \o Replace(Tail(raw), old, new)

\* de_mangle of node_mountpoint
de_mangle(raw) ==
    Replace(Replace(Replace(Replace(raw,
        <<"\\", "0", "4", "0">>, <<" ">>),
        <<"\\", "0", "1", "1">>, <<"\t">>),
        <<"\\", "0", "1", "2">>, <<"\n">>),
        <<"\\", "0", "1", "3", "4">>, <<"\\">>)

\* node_mountpoint(node): the mount point, or None
node_mountpoint(m, node) ==
    IF node \in DOMAIN ProcMounts(m)
    THEN [none |-> FALSE, at |-> de_mangle(ProcMounts(m)[node])]
    ELSE [none |-> TRUE]

\* what the bus answers to the Mount call: the mount point, or an error
BusErrors == {"AlreadyMounted", "NotAuthorized"}
BusReplies ==
    {[ok |-> TRUE, at |-> mp] : mp \in MountPoints}
    \cup {[ok |-> FALSE, error |-> e] : e \in BusErrors}

\* UDisks.mount(device_node_path) for a reply of the bus
mount(m, node, reply) ==
    IF reply.ok THEN [returned |-> TRUE, at |-> reply.at]
    ELSE LET mp == node_mountpoint(m, node) IN
         IF mp.none THEN [returned |-> FALSE, raised |-> reply.error]
         ELSE [returned |-> TRUE, at |-> mp.at]

UDisksInit ==
    /\ ignore_plugins = FALSE
    /\ iactions = [n \in Names |-> NoAction]
    /\ order = <<>>
    /\ registered = <<>>
    /\ loaded = 0
    /\ mainPc = "loading"
    /\ initIdx = 0
    /\ hooklog = <<>>
    /\ RunIdle /\ DropIdle /\ ResIdle /\ SchedIdle /\ AuxIdle

\* something else mounts or unmounts a device
MountChanges ==
    /\ \E d \in Devices :
          \/ /\ ~mounted[d].mounted
             /\ \E mp \in MountPoints :
                   mounted' = [mounted EXCEPT ![d] = [mounted |-> TRUE, at |-> mp]]
          \/ /\ mounted[d].mounted
             /\ mounted' = [mounted EXCEPT ![d] = NotMounted]
    /\ mount_result' = NoMount
    /\ UNCHANGED <<startupVars, runVars, dropVars, resVars, schedVars, actionVars,
                   finderVars, storeVars, quitVars>>

\* UDisks.mount(d): the bus mounts a device that is not mounted, or fails
Mount ==
    /\ \E d \in Devices, reply \in BusReplies :
          /\ reply.ok => ~mounted[d].mounted
          /\ (~reply.ok /\ reply.error = "AlreadyMounted") => mounted[d].mounted
          /\ mount_result' = [called |-> TRUE, device |-> d, reply |-> reply,
                              was |-> mounted[d], result |-> mount(mounted, d, reply)]
          /\ mounted' = IF reply.ok
                        THEN [mounted EXCEPT ![d] = [mounted |-> TRUE, at |-> reply.at]]
                        ELSE mounted
    /\ UNCHANGED <<startupVars, runVars, dropVars, resVars, schedVars, actionVars,
                   finderVars, storeVars, quitVars>>

UDisksNext == MountChanges \/ Mount

SpecUDisks == UDisksInit /\ [][UDisksNext]_vars

-----------------------------------------------------------------------------
(* C1 *)

RegisteredAs(n) == {i \in 1..Len(registered) : registered[i].name = n}

\* C1: for every name n, iactions[n] has a priority >= the priority of every
\* action ever registered under n, and among those of maximal priority the
\* most recently registered one is stored.
C1_HighestPriorityStored ==
    \A n \in Names :
        /\ (RegisteredAs(n) = {}) <=> (iactions[n] = NoAction)
        /\ \A i \in RegisteredAs(n) :
              /\ iactions[n].priority >= registered[i].priority
              /\ registered[i].priority = iactions[n].priority
                    => registered[i].uid <= iactions[n].uid
        /\ RegisteredAs(n) # {} =>
              \E i \in RegisteredAs(n) : registered[i] = iactions[n]

\* a name registered three times, the stored action neither the first nor the
\* last: a lower priority came after it
C1_Witness ==
    \E n \in Names :
        /\ Cardinality(RegisteredAs(n)) >= 3
        /\ \E i, j, k \in RegisteredAs(n) :
              /\ i < j /\ j < k
              /\ registered[j] = iactions[n]
              /\ registered[i].priority = registered[j].priority
              /\ registered[k].priority < registered[j].priority

-----------------------------------------------------------------------------
(* C2 *)

-----------------------------------------------------------------------------
(* C3 *)

\* C3, as stated: once update_last_downloaded has recorded a download of a
\* recipe on an interval schedule at time t, get_to_be_downloaded_recipes
\* does not report the recipe at any time earlier than t plus one hour.
C3_NoIntervalDownloadWithinAnHour ==
    \A r \in RecipeIds :
        (/\ ans.called
         /\ given[r].typ = "interval"
         /\ last_update[r].valid
         /\ last_update[r].typ = "interval"
         /\ clock < last_update[r].at + Hour)
        => ~InSeq(r, ans.ids)

-----------------------------------------------------------------------------
(* C4 *)

CalendarKinds == {"day/time", "days_of_week", "days_of_month"}
\* the local date, and the minute of the local day, of a UTC time
LocalDate(t) == (t + tz) \div Day
LocalMinuteOfDay(t) == ((t + tz) % Day) \div Minute
\* (a) today matches the schedule that was given
TodayMatches(g) ==
    LET today == LocalDate(clock)
        everyDayOr(d) == d < 0 \/ d > 6 \/ d = Weekday(today)
    IN
    IF g.typ = "day/time" THEN everyDayOr(g.schedule[1])
    ELSE IF g.typ = "days_of_week"
    THEN \E i \in 1..Len(g.schedule[1]) : everyDayOr(g.schedule[1][i])
    ELSE \E i \in 1..Len(g.schedule[1]) : g.schedule[1][i] = DayOfMonth(today)
\* (b) the local time of day is at or after the scheduled hour:minute
TimeReached(g) ==
    LocalMinuteOfDay(clock) >= g.schedule[2] * 60 + g.schedule[3]
\* (c) the local date of the stored last_downloaded is not today
NotYetToday(r) ==
    LET x == root[FirstIdx(root, "scheduled_recipe", r)] IN
    LocalDate(parse_iso8601(x.last_downloaded)) # LocalDate(clock)

\* C4: a recipe on a day/time, days_of_week or days_of_month schedule is
\* reported by get_to_be_downloaded_recipes exactly when (a) today matches
\* the schedule, (b) the local time is at or after the scheduled time and
\* (c) the local date of last_downloaded is not today; and after
\* update_last_downloaded it is not reported again on the same local day.
C4_CalendarDueExactlyWhen ==
    \A r \in RecipeIds :
        (ans.called /\ given[r].typ \in CalendarKinds) =>
            /\ InSeq(r, ans.ids) <=>
                  (TodayMatches(given[r]) /\ TimeReached(given[r]) /\ NotYetToday(r))
            /\ (last_update[r].valid
                /\ LocalDate(last_update[r].at) = LocalDate(clock))
               => ~InSeq(r, ans.ids)

\* a recipe on a calendar schedule that was downloaded on an earlier day is
\* reported again
C4_Witness ==
    /\ ans.called
    /\ given["r1"].typ \in CalendarKinds
    /\ last_update["r1"].valid
    /\ InSeq("r1", ans.ids)

-----------------------------------------------------------------------------
(* C5 *)

\* the schedule value get_schedule_info is to return for a given one
Accepted(g) ==
    IF g.typ = "interval" /\ g.schedule < MinInterval THEN MinInterval
    ELSE g.schedule

\* C5, as stated: after schedule_recipe(recipe, typ, schedule) was accepted,
\* get_schedule_info returns the same typ and the same schedule value (the
\* interval raised to 0.04 days when it was smaller), also for an empty list
\* of days.
C5_ScheduleRoundTrip ==
    (info.called /\ given[info.urn].typ # "") =>
        /\ info.ret.found
        /\ info.ret.result.ok
        /\ info.ret.result.typ = given[info.urn].typ
        /\ info.ret.result.sch = Accepted(given[info.urn])

-----------------------------------------------------------------------------
(* C6 *)

Calls(h, n) == {i \in 1..Len(hooklog) : hooklog[i] = Event(h, n)}
CallsOf(h) == {i \in 1..Len(hooklog) : hooklog[i][1] = h}
Held == {n \in Names : iactions[n] # NoAction}
Once(h, n) == Cardinality(Calls(h, n)) = 1
Before(S, T) == \A i \in S, j \in T : i < j

\* the phases never interleave, and no hook is called twice for an action
PhaseOrder ==
    /\ Before(CallsOf("do_genesis") \cup CallsOf("genesis")
                 \cup CallsOf("location_selected"), CallsOf("gui_layout_complete"))
    /\ Before(CallsOf("gui_layout_complete"), CallsOf("initialization_complete"))
    /\ \A n \in Names :
          /\ Before(Calls("do_genesis", n), Calls("genesis", n))
          /\ Before(Calls("genesis", n), Calls("location_selected", n))
          /\ \A h \in {"do_genesis", "genesis", "location_selected",
                        "gui_layout_complete", "initialization_complete"} :
                Cardinality(Calls(h, n)) <= 1

\* C6 as stated: when initialize has run, every action held in iactions has
\* had genesis, location_selected, gui_layout_complete and
\* initialization_complete called once each, in phase order.
C6_AllHooksOnceEach ==
    mainPc = "initialized" =>
        /\ PhaseOrder
        /\ \A n \in Held :
              /\ Once("do_genesis", n) /\ Once("genesis", n)
              /\ Once("location_selected", n)
              /\ Once("gui_layout_complete", n)
              /\ Once("initialization_complete", n)

\* C6 amended: in every state the phases are ordered and no hook is called
\* twice; when initialize has run to completion do_genesis,
\* gui_layout_complete and initialization_complete were called once each for
\* every action; genesis and location_selected are called only inside
\* do_genesis, location_selected only after genesis.
C6_HooksOnceInPhaseOrder ==
    /\ PhaseOrder
    /\ \A n \in Names :
          /\ Calls("location_selected", n) # {} => Calls("genesis", n) # {}
          /\ Calls("genesis", n) # {} => Calls("do_genesis", n) # {}
          /\ n \notin Held => \A i \in 1..Len(hooklog) : hooklog[i][2] # n
    /\ mainPc = "initialized" =>
          \A n \in Held :
              /\ Once("do_genesis", n)
              /\ Once("gui_layout_complete", n)
              /\ Once("initialization_complete", n)

\* initialize completed for two actions, the genesis of one of them raised
C6_Witness ==
    /\ mainPc = "initialized"
    /\ Held = Names
    /\ \E n \in Names : Calls("genesis", n) # {} /\ Calls("location_selected", n) = {}
    /\ \E n \in Names : Calls("location_selected", n) # {}

-----------------------------------------------------------------------------
(* C7 *)

\* C7: over any sequence of quit, restart, run_wizard and closeEvent requests
\* no action has shutting_down() called more than once, and once a shutdown
\* has been carried out every action in iactions has had it called exactly once.
C7_ShuttingDownOncePerPlugin ==
    \A n \in Held :
        /\ shutCalls[n] <= 1
        /\ shutdown_calls > 0 => shutCalls[n] = 1

-----------------------------------------------------------------------------
(* C8 *)

LmAbout == [i \in 1..Len(order) |->
              <<"library_about_to_change", order[i], lmOld, lmNew>>]
LmChanged == [i \in 1..Len(order) |->
              <<"library_changed", order[i], lmNew, lmNew>>]
LmFull == LmAbout \o <<<<"set_database", "", lmNew, lmNew>>>> \o LmChanged

IsPrefix(s, t) == Len(s) <= Len(t) /\ \A i \in 1..Len(s) : s[i] = t[i]

\* a switch: every action gets library_about_to_change(olddb, db), then the
\* view's database is replaced, then every action gets library_changed(db),
\* whichever hooks raise
LmSwitchOrder ==
    /\ IsPrefix(lmLog, LmFull)
    /\ lmPc = "idle" /\ lmLog # <<>> => lmLog = LmFull /\ current_db = lmNew
    /\ lmPc \in {"about_to_change", "switch"} =>
          /\ current_db # lmNew
          /\ lmOld \in {current_db, NoDb}
          /\ Len(lmLog) <= Len(order)
    /\ lmPc = "changed" => current_db = lmNew /\ Len(lmLog) > Len(order)

\* a library_moved that returns early calls no hook and leaves the database
LmEarlyReturn ==
    (lmPc = "idle" /\ moves' = moves) =>
        /\ lmPc' = "idle"
        /\ current_db' = current_db
        /\ lmLog' \in {<<>>, lmLog}

\* C8: when library_moved switches the library every action receives
\* library_about_to_change(olddb, db) before the view's database is replaced
\* and library_changed(db) after it, all of the former before any of the
\* latter, also when hooks raise; an early return calls no hook and leaves
\* the current database unchanged.
C8_LibraryChangeHooks == [] LmSwitchOrder /\ [][LmEarlyReturn]_vars

\* a second switch has completed for two actions although a hook raised
C8_Witness ==
    /\ lmPc = "idle"
    /\ moves = 2
    /\ Len(order) = 2
    /\ lmRaised
    /\ Len(lmLog) = 5
    /\ current_db = lmNew

-----------------------------------------------------------------------------
(* C9 *)

\* C9: every do_drop sees in self.dropped_ids exactly the ids of the drop
\* event that scheduled it, also when another drop event came in between.
C9_DoDropSeesItsOwnIds ==
    observed.ran => observed.seen = observed.dropped

-----------------------------------------------------------------------------
(* C10 *)

Requested == {res_args.names[i] : i \in 1..Len(res_args.names)}

\* C10: for a list of names of any length get_resources returns a dictionary
\* whose keys are exactly the requested names present in the zip file, each
\* with its contents; for a single path it returns the bytes, or None.
C10_DictForEveryList ==
    res_result # NoResult =>
        IF res_args.single
        THEN res_result = IF zip[res_args.names[1]] # Missing
                          THEN [kind |-> "bytes", data |-> zip[res_args.names[1]]]
                          ELSE [kind |-> "None"]
        ELSE /\ res_result.kind = "dict"
             /\ DOMAIN res_result.map = {n \in Requested : zip[n] # Missing}
             /\ \A n \in DOMAIN res_result.map : res_result.map[n] = zip[n]

-----------------------------------------------------------------------------
(* C11 *)

IconsRequested == {icon_args.names[i] : i \in 1..Len(icon_args.names)}
\* the theme has an icon plugin_name/n
HasThemeIcon(n) == icon_args.plugin_name # "" /\ n \in theme

\* C11, as stated: for a list of two or more names get_icons returns a
\* dictionary with an entry for every requested name; an entry is a null
\* icon only if the name is neither in the theme nor in the zip file, and a
\* name in the zip file without a theme icon gets the icon of its own bytes;
\* for a single path it returns one icon.
C11_IconForEveryName ==
    icon_result # NoResult =>
        IF icon_args.single
        THEN icon_result.kind = "icon"
        ELSE Len(icon_args.names) >= 2 =>
             /\ icon_result.kind = "dict"
             /\ DOMAIN icon_result.map = IconsRequested
             /\ \A n \in IconsRequested :
                   /\ icon_result.map[n] = NullIcon =>
                         (~HasThemeIcon(n) /\ zip[n] = Missing)
                   /\ (zip[n] # Missing /\ ~HasThemeIcon(n)) =>
                         icon_result.map[n] = ZipIcon(zip[n])

-----------------------------------------------------------------------------
(* C12 *)

\* the last create_action registered its shortcut with the keyboard manager
RegisteredNow ==
    /\ keyboard[UniqueName(created.call)].registered
    /\ keyboard[UniqueName(created.call)] # created.before[UniqueName(created.call)]
\* the default keys the claim gives for a shortcut element
DefaultKeys(shortcut) ==
    IF shortcut.kind = "str" THEN <<shortcut.key>>
    ELSE IF shortcut.kind = "tuple" THEN shortcut.keys
    ELSE <<>>

Skipped(a) ==
    \/ a.attr = "qaction" /\ a.popup_type = "InstantPopup"
    \/ ~a.shortcut_name.given /\ a.action_shortcut_name.given
          /\ a.action_shortcut_name.name = ""
NotHandedOver(a, kb) == Skipped(a) \/ kb[UniqueName(a)].registered

-----------------------------------------------------------------------------
(* C13 *)

\* the dotted components of the name find_spec was asked for
AskedParts == Split(asked.fullname, ".")
\* the plugin the name belongs to, when its second component is a key of
\* loaded_plugins
AskedPlugin ==
    IF Len(AskedParts) >= 2
       /\ \E k \in PluginKeys : <<k>> = AskedParts[2] /\ loaded_plugins[k].loaded
    THEN {loaded_plugins[k] : k \in {q \in PluginKeys : <<q>> = AskedParts[2]}}
    ELSE {}
\* the name inside the plugin: the components after the second
AskedSubmodule == Join(SubSeq(AskedParts, 3, Len(AskedParts)), ".")
\* the key of names a name resolves to: the plugin's '__init__' for the
\* plugin itself, the registered module, else the registered package
Resolved(pl) ==
    IF Len(AskedParts) = 2 THEN {<<Init__>>}
    ELSE IF AskedSubmodule \in DOMAIN pl.names THEN {AskedSubmodule}
    ELSE IF AskedSubmodule \o <<".", Init__>> \in DOMAIN pl.names
    THEN {AskedSubmodule \o <<".", Init__>>}
    ELSE {}

\* C13, as stated: find_spec returns None unless the first component is exactly
\* 'calibre_plugins', the second (if any) is a key of loaded_plugins and the
\* rest (if any) is a registered module or package of that plugin; otherwise
\* it returns a spec whose loader reads the bytes of the matching zip entry,
\* with is_package true exactly for an __init__ module, 'calibre_plugins' and
\* 'calibre_plugins.<name>'.
C13_FindSpecOnlyForLoadedPlugins ==
    asked.called =>
        IF AskedParts[1] # <<Root>> THEN ~asked.result.spec
        ELSE IF Len(AskedParts) = 1
        THEN asked.result.spec /\ asked.result.is_package
        ELSE IF AskedPlugin = {} THEN ~asked.result.spec
        ELSE \A pl \in AskedPlugin :
                IF Resolved(pl) = {} THEN ~asked.result.spec
                ELSE \A key \in Resolved(pl) :
                        /\ asked.result.spec
                        /\ asked.source
                              = [bytes_of |-> <<pl.zip_file_path, pl.names[key].filename>>]
                        /\ asked.result.is_package <=>
                              \/ Len(AskedParts) = 2
                              \/ key[Len(key)] = Init__

-----------------------------------------------------------------------------
(* C14 *)

\* C14, as stated: mount returns the mount point the bus reports when the
\* Mount call succeeds; when the call fails and the device is already
\* mounted it returns the existing mount point; when the call fails and the
\* device is not mounted the original error is raised again.
C14_MountFallsBackToMountTable ==
    mount_result.called =>
        IF mount_result.reply.ok
        THEN mount_result.result = [returned |-> TRUE, at |-> mount_result.reply.at]
        ELSE IF mount_result.was.mounted
        THEN mount_result.result = [returned |-> TRUE, at |-> mount_result.was.at]
        ELSE mount_result.result
                = [returned |-> FALSE, raised |-> mount_result.reply.error]

-----------------------------------------------------------------------------
(* C15 *)

\* C15, as stated: an exception raised by a non-builtin interface action or
\* store plugin while it is loaded in __init__, or while its do_genesis,
\* gui_layout_complete or initialization_complete runs in initialize, never
\* ends startup; the same exception raised by a builtin plugin always does.
C15_OnlyBuiltinErrorsEndStartup ==
    /\ mainPc = "failed" => last_raise.raised
    /\ last_raise.raised => (mainPc = "failed" <=> last_raise.builtin)

-----------------------------------------------------------------------------
(* C16 *)

\* the state of the window apart from the record of the quit call
WindowState == <<startupVars, runVars, dropVars, resVars, schedVars,
                 actionVars, finderVars, udisksVars, storeVars>>

\* the step is a call of quit: the record of the last call is a new one
QuitCalled == last_quit' # last_quit

\* C16: a quit() while shutting_down is True, or with confirm_quit requested
\* and declined, changes nothing: shutdown() is not called and the state of
\* the window is the same; every other quit() sets restart_after_quit, calls
\* shutdown() once and exit() once, also when shutdown() raised.
C16_QuitNoEffectOrShutdownThenExit ==
    [][QuitCalled =>
          IF shutting_down \/ last_quit'.declined
          THEN /\ UNCHANGED WindowState
               /\ ~last_quit'.raised
          ELSE /\ shutting_down'
               /\ restart_after_quit' = last_quit'.restart
               /\ shutdown_calls' = shutdown_calls + 1
               /\ exit_calls' = exit_calls + 1
               /\ UNCHANGED <<startupVars, current_db, dropVars>>]_vars

\* a quit that was not declined has called shutdown, the shutting_down() of
\* an action raised before another action was reached, and exit was called
C16_Witness ==
    /\ last_quit.called
    /\ last_quit.raised
    /\ shutdown_calls = 1
    /\ exit_calls = 1
    /\ \E n \in Names : iactions[n] # NoAction /\ shutCalls[n] = 0

====
